---- MODULE Spec2Model ----
(***************************************************************************)
(* A model of src/index.js: an Express application that keeps a list of   *)
(* PPA deals in the module-level array `data` and serves it through six   *)
(* routes.                                                                 *)
(*                                                                         *)
(* JavaScript values are records [t, n, s]: a number (t = "num", value n), *)
(* NaN, a string (t = "str", s its sequence of symbols), undefined, null.  *)
(* A symbol of a string is a decimal digit ("0" .. "9") or an opaque run   *)
(* of characters that are neither digits nor white space nor part of a    *)
(* numeric literal at that place ("Solar", " months", "-07-07"); the      *)
(* conversions below are computed on the symbols.                          *)
(*                                                                         *)
(* Every route handler is an async function.  A handler runs until its     *)
(* next `await`, and its continuation is resumed later from the microtask  *)
(* queue; handlers of requests that were started in the same turn of the   *)
(* event loop therefore interleave at their awaits.  A handler is cut into *)
(* steps at the awaits that separate two accesses to `data`; a part that   *)
(* touches only the handler's own locals (validateData, res.json) is       *)
(* joined to the step next to it, which changes no interleaving of the     *)
(* accesses to `data`.                                                     *)
(***************************************************************************)
EXTENDS Integers, Sequences, FiniteSets

VARIABLES data, minus1, handlers, res

vars == <<data, minus1, handlers, res>>

(***************************************************************************)
(* JavaScript values                                                       *)
(***************************************************************************)
Num(n) == [t |-> "num", n |-> n, s |-> <<>>]

NaN == [t |-> "nan", n |-> 0, s |-> <<>>]

Str(s) == [t |-> "str", n |-> 0, s |-> s]

Undefined == [t |-> "undefined", n |-> 0, s |-> <<>>]

Null == [t |-> "null", n |-> 0, s |-> <<>>]

Digits == <<"0", "1", "2", "3", "4", "5", "6", "7", "8", "9">>

IsDigit(c) == \E i \in 1..Len(Digits) : Digits[i] = c

DigitValue(c) == (CHOOSE i \in 1..Len(Digits) : Digits[i] = c) - 1

\* The decimal value of a sequence of digits.
RECURSIVE DecimalValue(_)
DecimalValue(s) ==
  IF s = <<>> THEN 0
  ELSE 10 * DecimalValue(SubSeq(s, 1, Len(s) - 1)) + DigitValue(s[Len(s)])

\* The decimal digits of a natural number (Number::toString, radix 10).
RECURSIVE DecimalDigits(_)
DecimalDigits(n) ==
  IF n < 10 THEN <<Digits[n + 1]>>
  ELSE Append(DecimalDigits(n \div 10), Digits[(n % 10) + 1])

\* The longest prefix of s that consists of digits.
RECURSIVE DigitPrefix(_)
DigitPrefix(s) ==
  IF s = <<>> \/ ~IsDigit(s[1]) THEN <<>>
  ELSE <<s[1]>> \o DigitPrefix(Tail(s))

\* ToString(v), for the values the program converts.
ToString(v) ==
  CASE v.t = "str" -> v.s
    [] v.t = "num" -> DecimalDigits(v.n)
    [] v.t = "nan" -> <<"NaN">>
    [] v.t = "undefined" -> <<"undefined">>
    [] v.t = "null" -> <<"null">>

\* ToNumber(v): the empty string is 0, a string of digits is its decimal
\* value, any other string is NaN.
ToNumber(v) ==
  CASE v.t = "num" -> v
    [] v.t = "nan" -> NaN
    [] v.t = "str" ->
         IF \A i \in 1..Len(v.s) : IsDigit(v.s[i]) THEN Num(DecimalValue(v.s)) ELSE NaN
    [] v.t = "undefined" -> NaN
    [] v.t = "null" -> Num(0)

\* parseInt(v, 10): the digits at the start of ToString(v), NaN when there
\* are none.
ParseInt(v) ==
  LET p == DigitPrefix(ToString(v))
  IN  IF p = <<>> THEN NaN ELSE Num(DecimalValue(p))

\* x === y
StrictEquals(x, y) ==
  /\ x.t = y.t
  /\ x.t # "nan"
  /\ x = y

\* x == y (IsLooselyEqual): the same type compares strictly, null equals
\* undefined, and a number against a string compares with ToNumber(string).
LooseEquals(x, y) ==
  CASE x.t = y.t -> StrictEquals(x, y)
    [] x.t = "nan" /\ y.t # "nan" -> FALSE
    [] y.t = "nan" /\ x.t # "nan" -> FALSE
    [] x.t \in {"undefined", "null"} /\ y.t \in {"undefined", "null"} /\ x.t # y.t -> TRUE
    [] x.t = "num" /\ y.t = "str" -> StrictEquals(x, ToNumber(y))
    [] x.t = "str" /\ y.t = "num" -> StrictEquals(ToNumber(x), y)
    [] OTHER -> FALSE

\* Math.max(a, b)
MathMax(a, b) ==
  LET x == ToNumber(a)
      y == ToNumber(b)
  IN  IF x.t = "nan" \/ y.t = "nan" THEN NaN
      ELSE IF x.n >= y.n THEN x ELSE y

\* a + 1: a string operand makes it a concatenation.
PlusOne(a) ==
  CASE a.t = "str" -> Str(a.s \o <<"1">>)
    [] a.t = "num" -> Num(a.n + 1)
    [] OTHER -> NaN

\* obj[key]: undefined for a key the object does not have.
Prop(obj, key) == IF key \in DOMAIN obj THEN obj[key] ELSE Undefined

(***************************************************************************)
(* Data: the mock deals the array starts with                              *)
(***************************************************************************)
Deal(id, seller, buyer, country, technology, capacity, term, date) ==
  [id |-> id, seller |-> seller, buyer |-> buyer, country |-> country,
   technology |-> technology, capacity |-> capacity, term |-> term, date |-> date]

SeedData ==
  << Deal(Num(1), Str(<<"Generic Utility Co">>), Str(<<"Buyer Industries">>),
          Str(<<"Germany">>), Str(<<"Solar">>), Num(15),
          Str(<<"1", "2", " months">>), Str(<<"2", "0", "2", "1", "-07-07">>)),
     Deal(Num(2), Str(<<"Generator X">>), Str(<<"XYZ Tech Corp">>),
          Str(<<"Belgium">>), Str(<<"Offshore Wind">>), Num(500),
          Str(<<"5", " years">>), Str(<<"2", "0", "2", "1", "-07-07">>)),
     Deal(Num(3), Str(<<"Another Power Seller">>), Str(<<"Large Corporate Co">>),
          Str(<<"France">>), Str(<<"Onshore Wind">>), Num(50),
          Str(<<"1", "2", " months">>), Str(<<"2", "0", "2", "1", "-07-06">>)),
     Deal(Num(4), Str(<<"Generator X">>), Str(<<"Large Corporate Co">>),
          Str(<<"United Kingdom">>), Str(<<"Solar">>), Num(20),
          Str(<<"5", " years">>), Str(<<"2", "0", "2", "1", "-07-06">>)),
     Deal(Num(5), Str(<<"ABC Energy 123">>), Str(<<"XYZ Tech Corp">>),
          Str(<<"Spain">>), Str(<<"Solar">>), Num(150),
          Str(<<"1", "0", " years">>), Str(<<"2", "0", "2", "1", "-07-05">>)) >>

(***************************************************************************)
(* Services                                                                *)
(***************************************************************************)
\* data.filter(test), for a test given as the set of the positions it accepts.
RECURSIVE FilterAt(_, _, _)
FilterAt(d, keep, i) ==
  IF i > Len(d) THEN <<>>
  ELSE (IF i \in keep THEN <<d[i]>> ELSE <<>>) \o FilterAt(d, keep, i + 1)

checkDealIdExists(d, id) ==
  LET check == FilterAt(d, {i \in 1..Len(d) : LooseEquals(d[i].id, id)}, 1)
  IN  Len(check) > 0

\* filterDeals with !== in the place of !=.
filterDealsStrict(deal, query) ==
  \A key \in DOMAIN query : StrictEquals(Prop(deal, key), query[key])

\* query is a function from its keys to their values; false at the first
\* key whose value deal[key] != value.
filterDeals(deal, query) ==
  \A key \in DOMAIN query : LooseEquals(Prop(deal, key), query[key])

propertiesToCheck ==
  <<"seller", "buyer", "country", "technology", "capacity", "term", "date">>

\* payload[p].length == 0: a string has its length, a number has none
\* (undefined == 0 is false), and null or undefined has no properties at
\* all: reading .length throws a TypeError.
RECURSIVE validateFrom(_, _)
validateFrom(payload, i) ==
  IF i > Len(propertiesToCheck) THEN "true"
  ELSE LET p == propertiesToCheck[i]
       IN  IF p \notin DOMAIN payload THEN "false"
           ELSE IF payload[p].t \in {"null", "undefined"} THEN "TypeError"
           ELSE IF payload[p].t = "str" /\ Len(payload[p].s) = 0 THEN "false"
           ELSE validateFrom(payload, i + 1)

validateData(payload) == validateFrom(payload, 1)

getDeals(d, query) ==
  FilterAt(d, {i \in 1..Len(d) : filterDeals(d[i], query)}, 1)

getDealById(d, id) ==
  FilterAt(d, {i \in 1..Len(d) : StrictEquals(d[i].id, ParseInt(id))}, 1)

\* data.map((deal) => deal.id).reduce((a, b) => Math.max(a, b)) for a
\* non-empty array: with one element reduce returns it as it is, without
\* calling Math.max.
RECURSIVE reduceMax(_, _)
reduceMax(d, i) ==
  IF i = 1 THEN d[1].id
  ELSE MathMax(reduceMax(d, i - 1), d[i].id)

\* An id taken from the number of deals, not from the largest id.
newIdByCount(d) == Num(Len(d) + 1)

\* The id createDeal gives the new deal (d is not empty).
newId(d) == PlusOne(reduceMax(d, Len(d)))

\* The deal createDeal builds.
newDeal(d, payload) ==
  Deal(newId(d), Prop(payload, "seller"), Prop(payload, "buyer"),
       Prop(payload, "country"), Prop(payload, "technology"),
       ParseInt(Prop(payload, "capacity")), Prop(payload, "term"),
       Prop(payload, "date"))

\* createDeal: reduce of an empty array with no initial value throws.
createThrows(d) == Len(d) = 0

createDeal(d, payload) == Append(d, newDeal(d, payload))

\* data.findIndex((deal) => deal.id == id), as a position of the sequence;
\* 0 stands for the -1 of "not found".
findIndex(d, id) ==
  IF \E i \in 1..Len(d) : LooseEquals(d[i].id, id)
  THEN CHOOSE i \in 1..Len(d) :
         /\ LooseEquals(d[i].id, id)
         /\ \A j \in 1..(i - 1) : ~LooseEquals(d[j].id, id)
  ELSE 0

\* The record updateDeal writes: the id is the route parameter as it came.
updatedDeal(id, payload) ==
  Deal(id, Prop(payload, "seller"), Prop(payload, "buyer"),
       Prop(payload, "country"), Prop(payload, "technology"),
       ParseInt(Prop(payload, "capacity")), Prop(payload, "term"),
       Prop(payload, "date"))

\* updateDeal, the elements of data after data[index] = {...}.
updateDeal(d, id, payload) ==
  LET index == findIndex(d, id)
  IN  IF index = 0 THEN d
      ELSE [d EXCEPT ![index] = updatedDeal(id, payload)]

\* updateDeal, the property "-1" of the array after data[index] = {...}: an
\* index of -1 writes it and leaves the elements alone.
updateMinus1(d, m, id, payload) ==
  IF findIndex(d, id) = 0 THEN <<updatedDeal(id, payload)>> ELSE m

\* deleteDeal with !== in the place of !=.
deleteDealStrict(d, id) ==
  FilterAt(d, {i \in 1..Len(d) : ~StrictEquals(d[i].id, id)}, 1)

deleteDeal(d, id) ==
  FilterAt(d, {i \in 1..Len(d) : ~LooseEquals(d[i].id, id)}, 1)

(***************************************************************************)
(* Requests: the route parameters, bodies and queries the clients send     *)
(***************************************************************************)
\* The largest number a new id may reach: POST is not taken beyond it.
MaxId == 6

\* req.params.id is always a string.  DELETE is sent for every deal of the
\* mock data, GET and PATCH for the first, also spelled "01", and the last.
DeleteParams ==
  { Str(<<"1">>), Str(<<"0", "1">>), Str(<<"2">>), Str(<<"3">>), Str(<<"4">>),
    Str(<<"5">>) }

GetParams == { Str(<<"1">>), Str(<<"0", "1">>), Str(<<"5">>) }

PatchParams == { Str(<<"1">>), Str(<<"0", "1">>), Str(<<"5">>) }

\* The parameters of the requests that are sent together.
PipelinedParams == { Str(<<"1">>), Str(<<"5">>) }

FullBody(seller, capacity) ==
  [p \in {"seller", "buyer", "country", "technology", "capacity", "term", "date"} |->
     CASE p = "seller" -> seller
       [] p = "buyer" -> Str(<<"Buyer Industries">>)
       [] p = "country" -> Str(<<"Spain">>)
       [] p = "technology" -> Str(<<"Solar">>)
       [] p = "capacity" -> capacity
       [] p = "term" -> Str(<<"5", " years">>)
       [] p = "date" -> Str(<<"2", "0", "2", "1", "-07-08">>)]

BodyInteger == FullBody(Str(<<"New Seller">>), Str(<<"2", "5">>))

BodyWords == FullBody(Str(<<"New Seller">>), Str(<<"plenty">>))

BodyEmptySeller == FullBody(Str(<<>>), Str(<<"2", "5">>))

BodyNoDate == [p \in {"seller", "buyer", "country", "technology", "capacity", "term"} |->
                 BodyInteger[p]]

BodyNullSeller == FullBody(Null, Str(<<"2", "5">>))

Bodies == {BodyInteger, BodyWords, BodyEmptySeller, BodyNoDate, BodyNullSeller}

\* req.query: an object, empty when the URL has no query string.
Queries ==
  { [k \in {} |-> Undefined],
    [k \in {"technology"} |-> Str(<<"Solar">>)],
    [k \in {"capacity"} |-> Str(<<"1", "5">>)],
    [k \in {"owner"} |-> Str(<<"Generator X">>)] }

Handlers == {"h1", "h2"}

(***************************************************************************)
(* State                                                                   *)
(*   data      the elements of the array `data`                            *)
(*   minus1    the property "-1" of that array: <<>> or <<the record>>     *)
(*   handlers  for each handler that is suspended between its existence    *)
(*             check and the rest, the route and the request               *)
(*   res       what the last step did to its response: the status and the  *)
(*             value the service returned for res.json; status 0 when the  *)
(*             step sent nothing, with the exception the catch block       *)
(*             logged, if one was thrown (no response is sent then)        *)
(***************************************************************************)
Idle == [pc |-> "idle", id |-> Undefined, body |-> [k \in {} |-> Undefined]]

Suspended(pc, id, body) == [pc |-> pc, id |-> id, body |-> body]

Response(route, status, value) ==
  [route |-> route, status |-> status, data |-> value, log |-> ""]

Listing(query, value) ==
  [route |-> "getDeals", status |-> 200, data |-> value, log |-> "", query |-> query]

Awaiting(route) == [route |-> route, status |-> 0, data |-> <<>>, log |-> ""]

Caught(route, e) == [route |-> route, status |-> 0, data |-> <<>>, log |-> e]

NotFound(route) ==
  [route |-> route, status |-> 400, data |-> "Could not find this id", log |-> ""]

Invalid(route) ==
  [route |-> route, status |-> 400,
   data |-> "Empty or missing properties and/or values", log |-> ""]

\* The TypeErrors: payload[p].length of null, and reduce of an empty array.
LengthOfNull == "TypeError: Cannot read properties of null (reading 'length')"

ReduceOfEmpty == "TypeError: Reduce of empty array with no initial value"

Init ==
  /\ data = SeedData
  /\ minus1 = <<>>
  /\ handlers = [h \in Handlers |-> Idle]
  /\ res = Awaiting("none")

(***************************************************************************)
(* Routes                                                                  *)
(***************************************************************************)
\* app.get('/api/deals'): getDeals runs before the await, the response
\* after it sends the array getDeals built.
GetDeals(query) ==
  /\ res' = Listing(query, getDeals(data, query))
  /\ UNCHANGED <<data, minus1, handlers>>

\* app.get('/api/deals/:id') up to its first await.
GetDealCheck(h, id) ==
  /\ handlers[h].pc = "idle"
  /\ IF ~checkDealIdExists(data, id)
     THEN /\ res' = NotFound("getDeal")
          /\ UNCHANGED handlers
     ELSE /\ res' = Awaiting("getDeal")
          /\ handlers' = [handlers EXCEPT ![h] = Suspended("getDeal", id, Idle.body)]
  /\ UNCHANGED <<data, minus1>>

\* ... and after it.
GetDealFetch(h) ==
  /\ handlers[h].pc = "getDeal"
  /\ res' = Response("getDeal", 200, getDealById(data, handlers[h].id))
  /\ handlers' = [handlers EXCEPT ![h] = Idle]
  /\ UNCHANGED <<data, minus1>>

\* app.post('/api/deals'): validateData reads the body alone, so the whole
\* handler is one step at createDeal.
PostDeal(body) ==
  /\ Len(data) > 0 => /\ ToNumber(reduceMax(data, Len(data))).t = "num"
                      /\ ToNumber(reduceMax(data, Len(data))).n < MaxId
  /\ LET validated == validateData(body)
     IN  IF validated = "TypeError"
         THEN /\ res' = Caught("postDeal", LengthOfNull)
              /\ UNCHANGED data
         ELSE IF validated = "false"
         THEN /\ res' = Invalid("postDeal")
              /\ UNCHANGED data
         ELSE IF createThrows(data)
         THEN /\ res' = Caught("postDeal", ReduceOfEmpty)
              /\ UNCHANGED data
         ELSE /\ data' = createDeal(data, body)
              /\ res' = Response("postDeal", 201, newDeal(data, body))
  /\ UNCHANGED <<minus1, handlers>>

\* app.patch('/api/deals/:id') up to its first await, and validateData.
PatchDealCheck(h, id, body) ==
  /\ handlers[h].pc = "idle"
  /\ LET validated == validateData(body)
     IN  IF ~checkDealIdExists(data, id)
         THEN /\ res' = NotFound("patchDeal")
              /\ UNCHANGED handlers
         ELSE IF validated = "TypeError"
         THEN /\ res' = Caught("patchDeal", LengthOfNull)
              /\ UNCHANGED handlers
         ELSE IF validated = "false"
         THEN /\ res' = Invalid("patchDeal")
              /\ UNCHANGED handlers
         ELSE /\ res' = Awaiting("patchDeal")
              /\ handlers' = [handlers EXCEPT ![h] = Suspended("patchDeal", id, body)]
  /\ UNCHANGED <<data, minus1>>

\* ... and updateDeal with its response: data[index] is read back at the
\* index that was written.
PatchDealUpdate(h) ==
  /\ handlers[h].pc = "patchDeal"
  /\ data' = updateDeal(data, handlers[h].id, handlers[h].body)
  /\ minus1' = updateMinus1(data, minus1, handlers[h].id, handlers[h].body)
  /\ res' = Response("patchDeal", 200, updatedDeal(handlers[h].id, handlers[h].body))
  /\ handlers' = [handlers EXCEPT ![h] = Idle]

\* app.delete('/api/deals/:id') up to its first await.
DeleteDealCheck(h, id) ==
  /\ handlers[h].pc = "idle"
  /\ IF ~checkDealIdExists(data, id)
     THEN /\ res' = NotFound("deleteDeal")
          /\ UNCHANGED handlers
     ELSE /\ res' = Awaiting("deleteDeal")
          /\ handlers' = [handlers EXCEPT ![h] = Suspended("deleteDeal", id, Idle.body)]
  /\ UNCHANGED <<data, minus1>>

\* ... and deleteDeal: data becomes a new array, which has no "-1".  res
\* holds the array as deleteDeal returned it.
DeleteDealFilter(h) ==
  /\ handlers[h].pc = "deleteDeal"
  /\ data' = deleteDeal(data, handlers[h].id)
  /\ minus1' = <<>>
  /\ res' = Response("deleteDeal", 200, deleteDeal(data, handlers[h].id))
  /\ handlers' = [handlers EXCEPT ![h] = Idle]

(***************************************************************************)
(* Specifications                                                          *)
(***************************************************************************)
\* No handler is suspended at an await.
Quiet == \A h \in Handlers : handlers[h].pc = "idle"

\* Spec: every request arrives in a turn of the event loop of its own.  The
\* microtasks of a handler, and so all its awaits, are run before the next
\* request is read.
Next ==
  \/ Quiet /\ \E query \in Queries : GetDeals(query)
  \/ Quiet /\ \E id \in GetParams : GetDealCheck("h1", id)
  \/ GetDealFetch("h1")
  \/ Quiet /\ \E body \in Bodies : PostDeal(body)
  \/ Quiet /\ \E id \in PatchParams, body \in Bodies : PatchDealCheck("h1", id, body)
  \/ PatchDealUpdate("h1")
  \/ Quiet /\ \E id \in DeleteParams : DeleteDealCheck("h1", id)
  \/ DeleteDealFilter("h1")

Spec == Init /\ [][Next]_vars

\* SpecPipelined: requests that arrive together (pipelined on one
\* connection) have their handlers started in the same turn, each up to its
\* first await; the continuations then run one after the other.
NextPipelined ==
  \/ \E query \in Queries : GetDeals(query)
  \/ \E h \in Handlers, id \in PipelinedParams : GetDealCheck(h, id)
  \/ \E h \in Handlers : GetDealFetch(h)
  \/ \E body \in Bodies : PostDeal(body)
  \/ \E h \in Handlers, id \in PipelinedParams, body \in Bodies : PatchDealCheck(h, id, body)
  \/ \E h \in Handlers : PatchDealUpdate(h)
  \/ \E h \in Handlers, id \in PipelinedParams : DeleteDealCheck(h, id)
  \/ \E h \in Handlers : DeleteDealFilter(h)

SpecPipelined == Init /\ [][NextPipelined]_vars

(***************************************************************************)
(* Properties                                                              *)
(***************************************************************************)
\* a > b as numbers.
Greater(a, b) ==
  /\ ToNumber(a).t = "num"
  /\ ToNumber(b).t = "num"
  /\ ToNumber(a).n > ToNumber(b).n

\* The positions of d whose deal matches the route parameter id (deal.id == id).
Matching(d, id) == {i \in 1..Len(d) : LooseEquals(d[i].id, id)}

\* d without its position i.
Without(d, i) == SubSeq(d, 1, i - 1) \o SubSeq(d, i + 1, Len(d))

\* The k-th smallest member of a set of positions.
Nth(S, k) == CHOOSE i \in S : Cardinality({j \in S : j < i}) = k - 1

\* r is d restricted to the positions in S, in the order of d.
IsSelection(r, d, S) ==
  /\ Len(r) = Cardinality(S)
  /\ \A k \in 1..Len(r) : r[k] = d[Nth(S, k)]

C2_CreateGreaterId ==
  [][(res'.route = "postDeal" /\ res'.status # 400 /\ res'.log # LengthOfNull)
       => /\ res'.status = 201
          /\ data' = Append(data, res'.data)
          /\ \A i \in 1..Len(data) : Greater(res'.data.id, data[i].id)]_vars

\* C3: GET /api/deals/:id never answers 200 with anything but the one deal
\* whose id matches.
C3_GetDealFindsOne ==
  (res.route = "getDeal" /\ res.status = 200) => Len(res.data) = 1

\* C4: right after a deal was created, getDealById of its id returns that
\* deal alone.
C4_CreateThenGet ==
  (res.route = "postDeal" /\ res.status = 201)
    => getDealById(data, res.data.id) = <<res.data>>

\* C5: updateDeal of an id that exists replaces the seven other fields of
\* that deal by the payload's (capacity parsed), keeps the id it had stored,
\* and leaves the size, the position and every other deal as they were.
C5_UpdateKeepsId ==
  [][\A h \in Handlers :
       (handlers[h].pc = "patchDeal" /\ handlers'[h].pc = "idle"
          /\ checkDealIdExists(data, handlers[h].id))
         => \E i \in 1..Len(data) :
              /\ LooseEquals(data[i].id, handlers[h].id)
              /\ Len(data') = Len(data)
              /\ \A j \in 1..Len(data) : j # i => data'[j] = data[j]
              /\ data'[i].id = data[i].id
              /\ \A p \in (DOMAIN handlers[h].body) \ {"capacity"} :
                   data'[i][p] = handlers[h].body[p]
              /\ data'[i].capacity = ParseInt(handlers[h].body.capacity)]_vars

C7_ValidPostAnswered ==
  (res.route = "postDeal" /\ res.status # 400 /\ res.log # LengthOfNull)
    => (res.status = 201 /\ res.log = "")

\* C8: GET /api/deals changes nothing and answers exactly the stored deals
\* whose field loosely equals the value of every key of the query, in the
\* order of the collection; and every step keeps the deals it leaves in the
\* collection in their order: a new deal goes to the end, an updated deal
\* stays at its position, a delete only removes.
C8_ListInOrder ==
  [][/\ res'.route = "getDeals"
          => /\ data' = data
             /\ minus1' = minus1
             /\ IsSelection(res'.data, data,
                  {i \in 1..Len(data) :
                     \A key \in DOMAIN res'.query :
                       LooseEquals(Prop(data[i], key), res'.query[key])})
             /\ (DOMAIN res'.query = {} => res'.data = data)
     /\ \/ Len(data') = Len(data) + 1 /\ SubSeq(data', 1, Len(data)) = data
        \/ /\ Len(data') = Len(data)
           /\ Cardinality({i \in 1..Len(data) : data'[i] # data[i]}) <= 1
        \/ /\ Len(data') < Len(data)
           /\ \E S \in SUBSET (1..Len(data)) : IsSelection(data', data, S)]_vars

\* C8 witness: a query has just selected some of the deals, not all, from a
\* collection that creates, updates and deletes have changed.
C8_Witness ==
  /\ res.route = "getDeals"
  /\ DOMAIN res.query # {}
  /\ Len(res.data) > 0
  /\ Len(res.data) < Len(data)
  /\ Len(data) < Len(SeedData)
  /\ \E i \in 1..Len(data) : data[i].id.t = "str"
  /\ \E i \in 1..Len(data) : data[i].seller = Str(<<"New Seller">>) /\ data[i].id.t = "num"

\* C9: the capacity of every stored deal is an integer.
C9_CapacityInteger ==
  \A i \in 1..Len(data) : data[i].capacity.t = "num"

\* C10: no mutation of another request comes between the existence check of
\* a handler and its updateDeal, so updateDeal never runs with an id that
\* matches no record: findIndex never returns -1 and no record is written
\* at data[-1].
C10_NoWriteAtMinus1 == minus1 = <<>>

====
